---- MODULE Spec2Model ----
(***************************************************************************)
(* A model of CAD/export.py: the batch export of OpenSCAD models from a    *)
(* table of parameter sets.                                                *)
(*                                                                         *)
(* Python strings that the code inspects character by character (the       *)
(* selection string, the string values of a parameter set, the captured    *)
(* standard error) are sequences of one-character strings; strings that    *)
(* the code only compares or concatenates (file names, flags, paths) are   *)
(* TLA+ strings.  A Python exception is the record Err; a returned value   *)
(* v is Ok(v).                                                             *)
(***************************************************************************)
EXTENDS Integers, Sequences, FiniteSets, TLC

VARIABLES
    \* ---- batch_export: inputs ----
    parameter_file,   \* the parameter file: its extension and its content
    selection,        \* args.select: None or a selection string
    sequential,       \* args.sequential
    tool,             \* what the external tool does for each index
    \* ---- batch_export: state ----
    pc,               \* position of the main thread
    folder_exists,    \* whether output_folder exists on disk
    parameters,       \* the list read from the parameter file
    selected_indices, \* None or the sorted list of selected indices
    idx,              \* loop index of the sequential loop / of the submit loop
    task,             \* concurrent mode: state of each submitted future
    work_queue,       \* concurrent mode: the executor's FIFO work queue
    launched,         \* per index: how many tool processes were launched
    commands,         \* per index: the command line of the launched process
    successes,        \* list of output files
    failures,         \* list of (output file, error) pairs
    export_times,     \* list of durations
    summary,          \* None or the printed summary
    exit_status,      \* None or the exit status of the process
    \* ---- parse_selection on its own ----
    sel_clauses,      \* the clauses the selection string was written from
    sel_str,          \* the selection string
    sel_total,        \* total_params
    sel_result,       \* None or the result of parse_selection
    \* ---- construct_d_flags on its own ----
    flag_params,      \* a parameter set
    flag_result       \* None or the result of construct_d_flags

vars == <<parameter_file, selection, sequential, tool, pc, folder_exists,
          parameters, selected_indices, idx, task, work_queue, launched,
          commands, successes, failures, export_times, summary, exit_status,
          sel_clauses, sel_str, sel_total, sel_result, flag_params, flag_result>>

batch_vars == <<parameter_file, selection, sequential, tool, pc, folder_exists,
                parameters, selected_indices, idx, task, work_queue, launched,
                commands, successes, failures, export_times, summary,
                exit_status>>

sel_vars == <<sel_clauses, sel_str, sel_total, sel_result>>

flag_vars == <<flag_params, flag_result>>

(***************************************************************************)
(* Python values                                                           *)
(***************************************************************************)
None == [t |-> "None"]

Ok(v) == [ok |-> TRUE, value |-> v]

Err == [ok |-> FALSE]

Digits == <<"0", "1", "2", "3", "4", "5", "6", "7", "8", "9">>

IsDigit(c) == \E d \in 1..10 : Digits[d] = c

DigitValue(c) == (CHOOSE d \in 1..10 : Digits[d] = c) - 1

IsSpace(c) == c \in {" ", "\n", "\t"}

\* The TLA+ string spelled by a sequence of characters.
RECURSIVE Str(_)
Str(cs) == IF cs = <<>> THEN "" ELSE Head(cs) \o Str(Tail(cs))

\* str(n) of a Python int.
RECURSIVE NatChars(_)
NatChars(n) == IF n < 10 THEN <<Digits[n + 1]>>
               ELSE NatChars(n \div 10) \o <<Digits[(n % 10) + 1]>>

IntChars(n) == IF n < 0 THEN <<"-">> \o NatChars(-n) ELSE NatChars(n)

\* The ascending list of a finite set of integers: sorted(set).
RECURSIVE sorted(_)
sorted(S) == IF S = {} THEN <<>>
             ELSE LET m == CHOOSE x \in S : \A y \in S : x <= y
                  IN <<m>> \o sorted(S \ {m})

Range(f) == {f[i] : i \in DOMAIN f}

(***************************************************************************)
(* str methods                                                             *)
(***************************************************************************)
RECURSIVE lstrip(_)
lstrip(s) == IF s # <<>> /\ IsSpace(Head(s)) THEN lstrip(Tail(s)) ELSE s

RECURSIVE rstrip(_)
rstrip(s) == IF s # <<>> /\ IsSpace(s[Len(s)])
             THEN rstrip(SubSeq(s, 1, Len(s) - 1)) ELSE s

strip(s) == rstrip(lstrip(s))

startswith(s, p) == Len(s) >= Len(p) /\ SubSeq(s, 1, Len(p)) = p

endswith(s, p) == Len(s) >= Len(p) /\ SubSeq(s, Len(s) - Len(p) + 1, Len(s)) = p

\* s.find(sep): the first position where sep occurs in s, 0 when it does not.
find(s, sep) ==
    LET hits == {i \in 1..(Len(s) - Len(sep) + 1) :
                    SubSeq(s, i, i + Len(sep) - 1) = sep}
    IN IF hits = {} THEN 0 ELSE CHOOSE i \in hits : \A j \in hits : i <= j

contains(s, sep) == find(s, sep) # 0

\* s.split(sep): s cut at every occurrence of sep.
RECURSIVE split(_, _)
split(s, sep) ==
    LET i == find(s, sep)
    IN IF i = 0 THEN <<s>>
       ELSE <<SubSeq(s, 1, i - 1)>> \o split(SubSeq(s, i + Len(sep), Len(s)), sep)

\* s.split(sep, 1): s cut at the first occurrence of sep only.
split1(s, sep) ==
    LET i == find(s, sep)
    IN IF i = 0 THEN <<s>>
       ELSE <<SubSeq(s, 1, i - 1), SubSeq(s, i + Len(sep), Len(s))>>

\* The value of a run of digits and single inner underscores, Err otherwise.
RECURSIVE DigitRun(_, _, _)
DigitRun(s, acc, prev) ==
    IF s = <<>> THEN (IF prev = "digit" THEN Ok(acc) ELSE Err)
    ELSE IF IsDigit(Head(s))
         THEN DigitRun(Tail(s), 10 * acc + DigitValue(Head(s)), "digit")
    ELSE IF Head(s) = "_" /\ prev = "digit"
         THEN DigitRun(Tail(s), acc, "underscore")
    ELSE Err

\* int(s) of a str: surrounding whitespace and a sign are accepted; anything
\* else than a decimal literal raises ValueError.
int(s) ==
    LET t    == strip(s)
        neg  == t # <<>> /\ Head(t) = "-"
        sign == t # <<>> /\ Head(t) \in {"-", "+"}
        body == IF sign THEN Tail(t) ELSE t
        r    == DigitRun(body, 0, "start")
    IN IF ~r.ok THEN Err
       ELSE Ok(IF neg THEN -r.value ELSE r.value)

\* The members of range(start, stop, step), step # 0.
range(start, stop, step) ==
    IF step > 0
    THEN {i \in start..(stop - 1) : (i - start) % step = 0}
    ELSE {i \in (stop + 1)..start : (start - i) % (-step) = 0}

(***************************************************************************)
(* parse_selection                                                         *)
(***************************************************************************)
EveryPrefix == <<"e", "v", "e", "r", "y", ":">>

FromPrefix == <<"f", "r", "o", "m", ":">>

UpToPrefix == <<"u", "p", "_", "t", "o", ":">>

InSeparator == <<" ", "i", "n", " ">>

\* map(int, s.split("-")) unpacked into exactly two names: ValueError when
\* there are not two pieces or a piece is no integer.
IntPair(s) ==
    LET pieces == split(s, <<"-">>)
    IN IF Len(pieces) # 2 THEN Err
       ELSE LET a == int(pieces[1])
                b == int(pieces[2])
            IN IF a.ok /\ b.ok THEN Ok(<<a.value, b.value>>) ELSE Err

InBounds(i, total_params) == ~(i < 0 \/ i >= total_params)

\* The branch for "every:<step> in <start>-<end>".
EveryPart(part, total_params) ==
    LET rest == split1(part, <<":">>)[2]
        two  == split(rest, InSeparator)
    IN IF Len(two) # 2 THEN Err
       ELSE LET step == int(two[1])
                se   == IntPair(two[2])
            IN IF ~step.ok \/ ~se.ok THEN Err
               ELSE IF se.value[1] > se.value[2] THEN Err
               ELSE IF step.value = 0 THEN Err   \* range() arg 3 must not be zero
               ELSE LET is == range(se.value[1], se.value[2] + 1, step.value)
                    IN IF \A i \in is : InBounds(i, total_params)
                       THEN Ok(is) ELSE Err

\* The branch for "from:<start>".
FromPart(part, total_params) ==
    LET start == int(split1(part, <<":">>)[2])
    IN IF ~start.ok THEN Err
       ELSE IF ~InBounds(start.value, total_params) THEN Err
       ELSE Ok(range(start.value, total_params, 1))

\* UpToPart with the end left out.
UpToPartExclusive(part, total_params) ==
    LET end == int(split1(part, <<":">>)[2])
    IN IF ~end.ok THEN Err
       ELSE IF ~InBounds(end.value, total_params) THEN Err
       ELSE Ok(range(0, end.value, 1))

\* The branch for "up_to:<end>".
UpToPart(part, total_params) ==
    LET end == int(split1(part, <<":">>)[2])
    IN IF ~end.ok THEN Err
       ELSE IF ~InBounds(end.value, total_params) THEN Err
       ELSE Ok(range(0, end.value + 1, 1))

\* The branch for "<start>-<end>".
RangePart(part, total_params) ==
    LET se == IntPair(part)
    IN IF ~se.ok THEN Err
       ELSE IF se.value[1] > se.value[2] THEN Err
       ELSE LET is == range(se.value[1], se.value[2] + 1, 1)
            IN IF \A i \in is : InBounds(i, total_params) THEN Ok(is) ELSE Err

\* The branch for "<n>".
IndexPart(part, total_params) ==
    LET index == int(part)
    IN IF ~index.ok THEN Err
       ELSE IF ~InBounds(index.value, total_params) THEN Err
       ELSE Ok({index.value})

\* One pass of the loop body: the indices one part adds, or ValueError.
SelectionPart(raw, total_params) ==
    LET part == strip(raw)
    IN IF part = <<>> THEN Ok({})
       ELSE IF startswith(part, EveryPrefix) THEN EveryPart(part, total_params)
       ELSE IF startswith(part, FromPrefix) THEN FromPart(part, total_params)
       ELSE IF startswith(part, UpToPrefix) THEN UpToPart(part, total_params)
       ELSE IF contains(part, <<"-">>) THEN RangePart(part, total_params)
       ELSE IndexPart(part, total_params)

\* The loop over the parts, with the set built so far.
RECURSIVE SelectionLoop(_, _, _)
SelectionLoop(parts, total_params, acc) ==
    IF parts = <<>> THEN Ok(sorted(acc))
    ELSE LET r == SelectionPart(Head(parts), total_params)
         IN IF ~r.ok THEN Err
            ELSE SelectionLoop(Tail(parts), total_params, acc \cup r.value)

parse_selection(selection_str, total_params) ==
    SelectionLoop(split(selection_str, <<",">>), total_params, {})

(***************************************************************************)
(* Selection strings.  A selection string is written from a list of        *)
(* clauses of the --select mini-language; a clause holds its literals as   *)
(* written: a natural number, a negative number or a word.                 *)
(***************************************************************************)
MaxClauses == 2

MaxTotal == 3

Nat_(n) == [k |-> "nat", n |-> n]

Neg_(n) == [k |-> "neg", n |-> n]

Word_ == [k |-> "word", n |-> 0]

\* The literal as it is typed.
LitText(l) == CASE l.k = "nat" -> NatChars(l.n)
                [] l.k = "neg" -> <<"-">> \o NatChars(l.n)
                [] l.k = "word" -> <<"x">>

NatLits == {Nat_(0), Nat_(1), Nat_(2)}

IndexLits == NatLits \cup {Neg_(1), Word_}

StepLits == NatLits \cup {Neg_(1)}

\* The <start>-<end> pairs written in 'every' and range clauses.
Spans == {<<Nat_(0), Nat_(1)>>, <<Nat_(0), Nat_(2)>>, <<Nat_(1), Nat_(2)>>,
          <<Nat_(1), Nat_(1)>>, <<Nat_(2), Nat_(1)>>}

Clauses ==
    {[kind |-> "every", step |-> s, start |-> p[1], end |-> p[2]] :
        s \in StepLits, p \in Spans \ {<<Nat_(1), Nat_(1)>>}}
    \cup {[kind |-> "every", step |-> Word_, start |-> Nat_(0), end |-> Nat_(2)]}
    \cup {[kind |-> "range", start |-> p[1], end |-> p[2]] : p \in Spans}
    \cup {[kind |-> "from", start |-> a] : a \in NatLits \cup {Neg_(1)}}
    \cup {[kind |-> "up_to", end |-> b] : b \in NatLits}
    \cup {[kind |-> "index", n |-> a] : a \in IndexLits}
    \cup {[kind |-> "empty"]}

\* The clause as it is typed ('0-5', '7', 'every:2 in 0-10', 'from:5',
\* 'up_to:4').
ClauseText(c) ==
    CASE c.kind = "every" ->
            EveryPrefix \o LitText(c.step) \o InSeparator
                \o LitText(c.start) \o <<"-">> \o LitText(c.end)
      [] c.kind = "range" -> LitText(c.start) \o <<"-">> \o LitText(c.end)
      [] c.kind = "from" -> FromPrefix \o LitText(c.start)
      [] c.kind = "up_to" -> UpToPrefix \o LitText(c.end)
      [] c.kind = "index" -> LitText(c.n)
      [] c.kind = "empty" -> <<>>

\* The clauses joined by commas, each padded with blanks when pad is set.
RECURSIVE SelectionText(_, _)
SelectionText(cs, pad) ==
    IF cs = <<>> THEN <<>>
    ELSE LET one == IF pad THEN <<" ">> \o ClauseText(Head(cs)) \o <<" ">>
                    ELSE ClauseText(Head(cs))
         IN IF Len(cs) = 1 THEN one
            ELSE one \o <<",">> \o SelectionText(Tail(cs), pad)

ClauseLists == UNION {[1..n -> Clauses] : n \in 1..MaxClauses}

InitParse ==
    /\ sel_clauses \in ClauseLists
    /\ \E pad \in BOOLEAN : sel_str = SelectionText(sel_clauses, pad)
    /\ sel_total \in 1..MaxTotal
    /\ sel_result = None

\* parse_selection(sel_str, sel_total) is called and returns or raises.
Parse ==
    /\ sel_result = None
    /\ sel_result' = parse_selection(sel_str, sel_total)
    /\ UNCHANGED <<sel_clauses, sel_str, sel_total>>

(***************************************************************************)
(* construct_d_flags                                                       *)
(*                                                                         *)
(* A parameter set is a dict: a sequence of <<key, value>> pairs in        *)
(* insertion order.  A value is a bool, an int, a float, a str, None or a  *)
(* list.  A float is the decimal mant * 10^(-scale), scale as small as     *)
(* possible, or one of inf and nan.                                        *)
(***************************************************************************)
Bool_(b) == [t |-> "bool", b |-> b]

Int_(n) == [t |-> "int", n |-> n]

Float_(neg, mant, scale) ==
    [t |-> "float", kind |-> "finite", neg |-> neg, mant |-> mant, scale |-> scale]

Inf_(neg) == [t |-> "float", kind |-> "inf", neg |-> neg, mant |-> 0, scale |-> 0]

NaN_ == [t |-> "float", kind |-> "nan", neg |-> FALSE, mant |-> 0, scale |-> 0]

Str_(s) == [t |-> "str", s |-> s]

List_(items) == [t |-> "list", items |-> items]

UpperCase == <<"A", "B", "C", "D", "E", "F", "G", "H", "I", "J", "K", "L", "M",
               "N", "O", "P", "Q", "R", "S", "T", "U", "V", "W", "X", "Y", "Z">>

LowerCase == <<"a", "b", "c", "d", "e", "f", "g", "h", "i", "j", "k", "l", "m",
               "n", "o", "p", "q", "r", "s", "t", "u", "v", "w", "x", "y", "z">>

\* s.lower()
lower(s) ==
    [i \in 1..Len(s) |->
        IF \E j \in 1..26 : UpperCase[j] = s[i]
        THEN LowerCase[CHOOSE j \in 1..26 : UpperCase[j] = s[i]]
        ELSE s[i]]

RECURSIVE Pow10(_)
Pow10(n) == IF n = 0 THEN 1 ELSE 10 * Pow10(n - 1)

\* The number of digits in a run of digits and underscores.
DigitCount(s) == Cardinality({i \in 1..Len(s) : IsDigit(s[i])})

\* mant * 10^(-scale) with the trailing zeros of the fraction dropped.
RECURSIVE Normal(_, _, _)
Normal(neg, mant, scale) ==
    IF scale < 0 THEN Float_(neg, mant * Pow10(-scale), 0)
    ELSE IF scale > 0 /\ mant % 10 = 0 THEN Normal(neg, mant \div 10, scale - 1)
    ELSE Float_(neg, mant, scale)

\* float(s) of a str: blanks around, a sign, then inf, infinity, nan or a
\* decimal with an optional exponent; ValueError otherwise.
float(s) ==
    LET t    == strip(s)
        neg  == t # <<>> /\ Head(t) = "-"
        sign == t # <<>> /\ Head(t) \in {"-", "+"}
        body == lower(IF sign THEN Tail(t) ELSE t)
        me   == split(body, <<"e">>)
        md   == split(me[1], <<".">>)
        ip   == md[1]
        fp   == IF Len(md) = 2 THEN md[2] ELSE <<>>
        iv   == IF ip = <<>> THEN Ok(0) ELSE DigitRun(ip, 0, "start")
        fv   == IF fp = <<>> THEN Ok(0) ELSE DigitRun(fp, 0, "start")
        ev   == IF Len(me) = 2 THEN int(me[2]) ELSE Ok(0)
        k    == DigitCount(fp)
    IN IF body \in {<<"i", "n", "f">>, <<"i", "n", "f", "i", "n", "i", "t", "y">>}
       THEN Ok(Inf_(neg))
       ELSE IF body = <<"n", "a", "n">> THEN Ok(NaN_)
       ELSE IF Len(me) > 2 \/ Len(md) > 2 THEN Err
       ELSE IF ip = <<>> /\ fp = <<>> THEN Err
       ELSE IF Len(me) = 2 /\ (me[2] = <<>> \/ IsSpace(Head(me[2]))
                                \/ IsSpace(me[2][Len(me[2])])) THEN Err
       ELSE IF ~iv.ok \/ ~fv.ok \/ ~ev.ok THEN Err
       ELSE Ok(Normal(neg, iv.value * Pow10(k) + fv.value, k - ev.value))

\* x.is_integer()
is_integer(x) == x.kind = "finite" /\ x.scale = 0

\* int(x) of a float with no fractional part.
int_of_float(x) == IF x.neg THEN -x.mant ELSE x.mant

\* The digits of n, at least width of them.
RECURSIVE Padded(_, _)
Padded(n, width) ==
    IF Len(NatChars(n)) >= width THEN NatChars(n)
    ELSE <<"0">> \o SubSeq(Padded(n, width - 1), 1, width - 1)

\* str(x) of a float x.
FloatChars(x) ==
    LET sgn == IF x.neg THEN <<"-">> ELSE <<>>
    IN CASE x.kind = "nan" -> <<"n", "a", "n">>
         [] x.kind = "inf" -> sgn \o <<"i", "n", "f">>
         [] x.kind = "finite" /\ x.scale = 0 -> sgn \o NatChars(x.mant) \o <<".", "0">>
         [] x.kind = "finite" /\ x.scale > 0 ->
               sgn \o NatChars(x.mant \div Pow10(x.scale)) \o <<".">>
                   \o Padded(x.mant % Pow10(x.scale), x.scale)

\* str(items) of a list of ints.
RECURSIVE ItemsChars(_)
ItemsChars(items) ==
    IF items = <<>> THEN <<>>
    ELSE IF Len(items) = 1 THEN IntChars(items[1])
    ELSE IntChars(items[1]) \o <<",", " ">> \o ItemsChars(Tail(items))

\* f"{value}"
Format(value) ==
    CASE value.t = "bool" -> IF value.b THEN <<"T", "r", "u", "e">>
                             ELSE <<"F", "a", "l", "s", "e">>
      [] value.t = "int" -> IntChars(value.n)
      [] value.t = "float" -> FloatChars(value)
      [] value.t = "str" -> value.s
      [] value.t = "None" -> <<"N", "o", "n", "e">>
      [] value.t = "list" -> <<"[">> \o ItemsChars(value.items) \o <<"]">>

Unquoted(key, text) == "-D" \o key \o "=" \o Str(text)

Quoted(key, text) == "-D" \o key \o "=\"" \o Str(text) \o "\""

\* StrFlag without the conversion of a whole float to int.
StrFlagNoCoercion(key, value) ==
    LET lowered == lower(value.s)
        stripped_value == strip(value.s)
        numeric == float(value.s)
    IN IF lowered = <<"t", "r", "u", "e">> THEN "-D" \o key \o "=true"
       ELSE IF lowered = <<"f", "a", "l", "s", "e">> THEN "-D" \o key \o "=false"
       ELSE IF \/ startswith(stripped_value, <<"[">>) /\ endswith(stripped_value, <<"]">>)
               \/ startswith(stripped_value, <<"{">>) /\ endswith(stripped_value, <<"}">>)
            THEN Unquoted(key, value.s)
       ELSE IF ~numeric.ok THEN Quoted(key, value.s)
       ELSE Unquoted(key, FloatChars(numeric.value))

\* The flag for a str value.
StrFlag(key, value) ==
    LET lowered == lower(value.s)
        stripped_value == strip(value.s)
        numeric == float(value.s)
    IN IF lowered = <<"t", "r", "u", "e">> THEN "-D" \o key \o "=true"
       ELSE IF lowered = <<"f", "a", "l", "s", "e">> THEN "-D" \o key \o "=false"
       ELSE IF \/ startswith(stripped_value, <<"[">>) /\ endswith(stripped_value, <<"]">>)
               \/ startswith(stripped_value, <<"{">>) /\ endswith(stripped_value, <<"}">>)
            THEN Unquoted(key, value.s)
       ELSE IF ~numeric.ok THEN Quoted(key, value.s)
       ELSE IF is_integer(numeric.value)
            THEN Unquoted(key, IntChars(int_of_float(numeric.value)))
       ELSE Unquoted(key, FloatChars(numeric.value))

\* The flag appended for one item of the dict.
DFlag(key, value) ==
    IF value.t = "bool" THEN "-D" \o key \o (IF value.b THEN "=true" ELSE "=false")
    ELSE IF value.t \in {"int", "float"} THEN Unquoted(key, Format(value))
    ELSE IF value.t = "str" THEN StrFlag(key, value)
    ELSE Quoted(key, Format(value))

RECURSIVE construct_d_flags(_)
construct_d_flags(params) ==
    IF params = <<>> THEN <<>>
    ELSE LET key == Head(params)[1]
             value == Head(params)[2]
         IN (IF key # "exported_filename" THEN <<DFlag(key, value)>> ELSE <<>>)
                \o construct_d_flags(Tail(params))

(***************************************************************************)
(* Parameter sets given to construct_d_flags on its own.                   *)
(***************************************************************************)
MaxSetSize == 2

ParamKeys == {"width", "label", "exported_filename"}

StrValues ==
    { <<"t", "r", "u", "e">>, <<"T", "R", "U", "E">>, <<"F", "a", "l", "s", "e">>,
      <<" ", "t", "r", "u", "e">>,
      <<"[", "1", ",", "2", "]">>, <<" ", "[", "1", "]", " ">>, <<"{", "a", "}">>,
      <<"[", "1", "}">>, <<"[", "1">>,
      <<"3", ".", "0">>, <<"3", ".", "5">>, <<"3", ".", "5", "0">>, <<"7">>,
      <<"0", "0", "7">>, <<"-", "2", ".", "0">>, <<"-", "0", ".", "5">>,
      <<".", "5">>, <<"5", ".">>, <<" ", "4", " ">>, <<"1", "e", "2">>,
      <<"1", "_", "0">>, <<"n", "a", "n">>, <<"I", "n", "f">>,
      <<"h", "e", "l", "l", "o">>, <<"1", ".", "2", ".", "3">>, <<".">>, <<>> }

ParamValues ==
    {Bool_(TRUE), Bool_(FALSE), Int_(3), Int_(-1), Float_(FALSE, 3, 0),
     Float_(FALSE, 25, 1), None, List_(<<1, 2>>)}
    \cup {Str_(s) : s \in StrValues}

\* The dicts of at most MaxSetSize items over ParamKeys.
ParamSets ==
    UNION {{p \in [1..n -> ParamKeys \X ParamValues] :
               \A i \in 1..n : \A j \in 1..n : i # j => p[i][1] # p[j][1]} :
           n \in 0..MaxSetSize}

InitFlags ==
    /\ flag_params \in ParamSets
    /\ flag_result = None

\* construct_d_flags(flag_params) is called and returns.
Translate ==
    /\ flag_result = None
    /\ flag_result' = Ok(construct_d_flags(flag_params))
    /\ UNCHANGED flag_params

(***************************************************************************)
(* Parameter files: read_csv and read_json                                 *)
(***************************************************************************)
MaxParams == 2

ExportedFilename == "exported_filename"

CsvExt == <<".", "c", "s", "v">>

JsonExt == <<".", "j", "s", "o", "n">>

\* A CSV file: the header row and the rows, every cell a str.
CsvFile(ext, header, rows) ==
    [ext |-> ext, format |-> "csv", header |-> header, rows |-> rows]

\* A JSON file: the items of its "parameterSets" object in key order.
JsonFile(ext, sets) ==
    [ext |-> ext, format |-> "json", header |-> <<>>, rows |-> sets]

\* csv.DictReader: each row is a dict from the header's names to the cells.
read_csv(file) ==
    [r \in 1..Len(file.rows) |->
        [c \in 1..Len(file.header) |-> <<file.header[c], Str_(file.rows[r][c])>>]]

\* Each named set is copied and its name stored under exported_filename.
read_json(file) ==
    [r \in 1..Len(file.rows) |->
        LET name == file.rows[r][1]
            params == file.rows[r][2]
        IN IF \E k \in 1..Len(params) : params[k][1] = ExportedFilename
           THEN [k \in 1..Len(params) |->
                    IF params[k][1] = ExportedFilename
                    THEN <<ExportedFilename, Str_(name)>> ELSE params[k]]
           ELSE Append(params, <<ExportedFilename, Str_(name)>>)]

\* The cell of the width column in row r of the CSV files.
WidthCell(r) == IF r % 2 = 1 THEN <<"3", ".", "0">> ELSE <<"w", "i", "d", "e">>

BatchFilesOf(n) ==
    LET names == [1..n -> {<<"a">>, <<"b">>}]
    IN {CsvFile(CsvExt, <<ExportedFilename, "width">>,
                [r \in 1..n |-> <<nm[r], WidthCell(r)>>]) : nm \in names}
       \cup {CsvFile(CsvExt, <<"width">>, [r \in 1..n |-> <<WidthCell(r)>>])}
       \cup {JsonFile(<<".", "J", "S", "O", "N">>,
                [r \in 1..n |-> << <<"s", "e", "t">> \o NatChars(r),
                                   << <<"width", Int_(r)>>,
                                      <<"open", Bool_(TRUE)>> >> >>])}

BatchFiles ==
    UNION {BatchFilesOf(n) : n \in 0..MaxParams}
    \cup {CsvFile(<<".", "t", "x", "t">>, <<"width">>, << <<WidthCell(1)>> >>)}

(***************************************************************************)
(* The external tool: what one launch does.  It exits with a status and a  *)
(* standard error after some seconds, or the launch itself raises.         *)
(***************************************************************************)
ToolOutcomes ==
    { [kind |-> "exit", code |-> 0, stderr |-> <<>>, secs |-> 1],
      [kind |-> "exit", code |-> 1,
       stderr |-> <<"b", "a", "d", " ", "s", "c", "a", "d", "\n">>, secs |-> 2],
      [kind |-> "raise", code |-> 0, stderr |-> <<>>, secs |-> 0] }

(***************************************************************************)
(* Command-line arguments of the export subcommand                         *)
(***************************************************************************)
scad_file == "model.scad"

output_folder == <<"o", "u", "t">>

openscad_path == "openscad"

export_format == "binstl"

export_extension == <<"s", "t", "l">>

BatchSelections ==
    {None, Str_(<<>>)}
    \cup {Str_(SelectionText(cs, FALSE)) : cs \in
            { <<[kind |-> "index", n |-> Nat_(0)]>>,
              <<[kind |-> "index", n |-> Nat_(1)], [kind |-> "empty"]>>,
              <<[kind |-> "from", start |-> Nat_(1)]>>,
              <<[kind |-> "index", n |-> Nat_(2)],
                [kind |-> "up_to", end |-> Nat_(0)]>>,
              <<[kind |-> "every", step |-> Neg_(1), start |-> Nat_(0),
                 end |-> Nat_(1)]>>,
              <<[kind |-> "index", n |-> Word_]>> }}

(***************************************************************************)
(* batch_export                                                            *)
(***************************************************************************)
\* ThreadPoolExecutor(): the smallest default pool, min(32, cpu_count + 4)
\* with one processor.
max_workers == 5

NumSets == Len(parameter_file.rows)

\* param_set.get(key, default)
Get(param_set, key, default) ==
    IF \E k \in 1..Len(param_set) : param_set[k][1] = key
    THEN param_set[CHOOSE k \in 1..Len(param_set) : param_set[k][1] = key][2]
    ELSE default

\* os.path.join(a, b)
join(a, b) ==
    IF startswith(b, <<"/">>) THEN b
    ELSE IF a = <<>> \/ endswith(a, <<"/">>) THEN a \o b
    ELSE a \o <<"/">> \o b

\* IsSelected without the test of the selection.
IsSelectedAlways(i) == TRUE

\* "idx not in selected_indices" is false, or no selection was given.
IsSelected(i) ==
    IF selected_indices = None THEN TRUE
    ELSE \E k \in 1..Len(selected_indices.items) : selected_indices.items[k] = i

\* os.path.join(output_folder, f"{filename}.{export_extension}")
OutputFile(i) ==
    LET param_set == parameters[i + 1]
        filename == Get(param_set, ExportedFilename,
                        Str_(<<"m", "o", "d", "e", "l", "_">> \o IntChars(i)))
    IN Str(join(output_folder, Format(filename) \o <<".">> \o export_extension))

\* The command export_file runs.  exportformat, f"--export-format={export_format}",
\* is computed and is not put into the command.
Command(path, scad, output_file, format, d_flags) ==
    <<path, "-o", output_file>> \o d_flags \o <<scad>>

\* What export_file returns once the tool has exited: (success, error, duration).
ExportFileResult(outcome) ==
    IF outcome.code = 0 THEN <<TRUE, "", outcome.secs>>
    ELSE <<FALSE, Str(strip(outcome.stderr)), outcome.secs>>

\* ProcessExportResult without the error text of a failure.
ProcessExportResultNoError(i) ==
    LET r == ExportFileResult(tool[i])
    IN IF r[1] THEN <<"success", OutputFile(i), r[3]>>
       ELSE <<"failure", <<OutputFile(i), "">>, r[3]>>

\* What process_export returns for a selected index.
ProcessExportResult(i) ==
    LET r == ExportFileResult(tool[i])
    IN IF r[1] THEN <<"success", OutputFile(i), r[3]>>
       ELSE <<"failure", <<OutputFile(i), r[2]>>, r[3]>>

\* Launch with a second attempt after a non-zero exit.
LaunchWithRetry(i) ==
    /\ launched' = [launched EXCEPT ![i] = @ + (IF tool[i].code # 0 THEN 2 ELSE 1)]
    /\ commands' = [commands EXCEPT
                      ![i] = Command(openscad_path, scad_file, OutputFile(i), export_format,
                                     construct_d_flags(parameters[i + 1]))]

\* The launch of the tool for index i: subprocess.run is called.
Launch(i) ==
    /\ launched' = [launched EXCEPT ![i] = @ + 1]
    /\ commands' = [commands EXCEPT
                      ![i] = Command(openscad_path, scad_file, OutputFile(i), export_format,
                                     construct_d_flags(parameters[i + 1]))]

\* sys.exit(status), or the interpreter ending on an uncaught exception.
Exit(status) ==
    /\ pc' = "exited"
    /\ exit_status' = status

InitBatch ==
    /\ parameter_file \in BatchFiles
    /\ selection \in BatchSelections
    /\ sequential \in BOOLEAN
    /\ tool \in [0..(NumSets - 1) -> ToolOutcomes]
    /\ folder_exists \in BOOLEAN
    /\ pc = "load"
    /\ parameters = <<>>
    /\ selected_indices = None
    /\ idx = 0
    /\ task = [i \in 0..(NumSets - 1) |-> "new"]
    /\ work_queue = <<>>
    /\ launched = [i \in 0..(NumSets - 1) |-> 0]
    /\ commands = [i \in 0..(NumSets - 1) |-> <<>>]
    /\ successes = <<>>
    /\ failures = <<>>
    /\ export_times = <<>>
    /\ summary = None
    /\ exit_status = None

\* When LoadParameters can be taken.
CanLoadParameters ==
    /\ pc = "load"

\* The parameter file is read by its extension; another extension ends the run.
LoadParameters ==
    /\ CanLoadParameters
    /\ LET ext == lower(parameter_file.ext)
       IN IF ext = CsvExt
          THEN /\ parameters' = read_csv(parameter_file)
               /\ pc' = "mkdir"
               /\ UNCHANGED exit_status
          ELSE IF ext = JsonExt
          THEN /\ parameters' = read_json(parameter_file)
               /\ pc' = "mkdir"
               /\ UNCHANGED exit_status
          ELSE /\ Exit(1)
               /\ UNCHANGED parameters
    /\ UNCHANGED <<parameter_file, selection, sequential, tool, folder_exists,
                   selected_indices, idx, task, work_queue, launched, commands,
                   successes, failures, export_times, summary>>

\* ensure_output_folder without os.makedirs.
EnsureOutputFolderNoMakedirs ==
    /\ pc = "mkdir"
    /\ pc' = "select"
    /\ UNCHANGED <<parameter_file, selection, sequential, tool, parameters,
                   selected_indices, idx, task, work_queue, launched, commands,
                   successes, failures, export_times, summary, exit_status,
                   folder_exists>>

\* When EnsureOutputFolder can be taken.
CanEnsureOutputFolder ==
    /\ pc = "mkdir"

\* ensure_output_folder(output_folder)
EnsureOutputFolder ==
    /\ CanEnsureOutputFolder
    /\ folder_exists' = TRUE
    /\ pc' = "select"
    /\ UNCHANGED <<parameter_file, selection, sequential, tool, parameters,
                   selected_indices, idx, task, work_queue, launched, commands,
                   successes, failures, export_times, summary, exit_status>>

\* When SelectIndices can be taken.
CanSelectIndices ==
    /\ pc = "select"

\* The selection, when one is given and not empty, is parsed; a ValueError
\* ends the run.  Then the result lists are set up and the mode is chosen.
SelectIndices ==
    /\ CanSelectIndices
    /\ LET given == selection # None /\ selection.s # <<>>
           r == parse_selection(selection.s, Len(parameters))
       IN IF given /\ ~r.ok
          THEN /\ Exit(1)
               /\ UNCHANGED selected_indices
          ELSE /\ selected_indices' = IF given THEN List_(r.value) ELSE None
               /\ pc' = IF sequential THEN "seq" ELSE "submit"
               /\ UNCHANGED exit_status
    /\ UNCHANGED <<parameter_file, selection, sequential, tool, folder_exists,
                   parameters, idx, task, work_queue, launched, commands,
                   successes, failures, export_times, summary>>

\* When SeqSkip can be taken.
CanSeqSkip ==
    /\ pc = "seq"
    /\ idx < Len(parameters)
    /\ ~IsSelected(idx)

\* Sequential loop: a parameter set that is not selected is passed over.
SeqSkip ==
    /\ CanSeqSkip
    /\ idx' = idx + 1
    /\ UNCHANGED <<parameter_file, selection, sequential, tool, pc, folder_exists,
                   parameters, selected_indices, task, work_queue, launched,
                   commands, successes, failures, export_times, summary,
                   exit_status>>

\* When SeqExport can be taken.
CanSeqExport ==
    /\ pc = "seq"
    /\ idx < Len(parameters)
    /\ IsSelected(idx)

\* Sequential loop: a selected parameter set is exported and its result
\* appended; an exception of the launch leaves batch_export and ends the run.
SeqExport ==
    /\ CanSeqExport
    /\ Launch(idx)
    /\ IF tool[idx].kind = "raise"
       THEN /\ Exit(1)
            /\ UNCHANGED <<idx, successes, failures, export_times>>
       ELSE LET r == ExportFileResult(tool[idx])
            IN /\ IF r[1]
                  THEN /\ successes' = Append(successes, OutputFile(idx))
                       /\ UNCHANGED failures
                  ELSE /\ failures' = Append(failures, <<OutputFile(idx), r[2]>>)
                       /\ UNCHANGED successes
               /\ export_times' = Append(export_times, r[3])
               /\ idx' = idx + 1
               /\ UNCHANGED <<pc, exit_status>>
    /\ UNCHANGED <<parameter_file, selection, sequential, tool, folder_exists,
                   parameters, selected_indices, task, work_queue, summary>>

\* When SeqDone can be taken.
CanSeqDone ==
    /\ pc = "seq"
    /\ idx = Len(parameters)

\* Sequential loop: the enumeration is exhausted.
SeqDone ==
    /\ CanSeqDone
    /\ pc' = "summary"
    /\ UNCHANGED <<parameter_file, selection, sequential, tool, folder_exists,
                   parameters, selected_indices, idx, task, work_queue, launched,
                   commands, successes, failures, export_times, summary,
                   exit_status>>

\* When Submit can be taken.
CanSubmit ==
    /\ pc = "submit"
    /\ idx < Len(parameters)

\* Concurrent mode: executor.submit(process_export, idx_param) for the next
\* parameter set, selected or not.
Submit ==
    /\ CanSubmit
    /\ task' = [task EXCEPT ![idx] = "queued"]
    /\ work_queue' = Append(work_queue, idx)
    /\ idx' = idx + 1
    /\ UNCHANGED <<parameter_file, selection, sequential, tool, pc, folder_exists,
                   parameters, selected_indices, launched, commands, successes,
                   failures, export_times, summary, exit_status>>

\* When SubmitDone can be taken.
CanSubmitDone ==
    /\ pc = "submit"
    /\ idx = Len(parameters)

\* Concurrent mode: every parameter set is submitted; as_completed begins.
SubmitDone ==
    /\ CanSubmitDone
    /\ pc' = "collect"
    /\ UNCHANGED <<parameter_file, selection, sequential, tool, folder_exists,
                   parameters, selected_indices, idx, task, work_queue, launched,
                   commands, successes, failures, export_times, summary,
                   exit_status>>

Busy == {i \in DOMAIN task : task[i] \in {"taken", "exporting"}}

\* When WorkerTake can be taken.
CanWorkerTake ==
    /\ pc \in {"submit", "collect", "unwind"}
    /\ work_queue # <<>>
    /\ Cardinality(Busy) < max_workers

\* A worker thread of the pool takes the oldest work item.
WorkerTake ==
    /\ CanWorkerTake
    /\ task' = [task EXCEPT ![Head(work_queue)] = "taken"]
    /\ work_queue' = Tail(work_queue)
    /\ UNCHANGED <<parameter_file, selection, sequential, tool, pc, folder_exists,
                   parameters, selected_indices, idx, launched, commands,
                   successes, failures, export_times, summary, exit_status>>

\* When WorkerStart can be taken.
CanWorkerStart(i) ==
    /\ task[i] = "taken"

\* process_export(i) starts: None is returned for a set that is not selected,
\* otherwise the tool is launched; a launch that raises ends the future.
WorkerStart(i) ==
    /\ CanWorkerStart(i)
    /\ IF ~IsSelected(i)
       THEN /\ task' = [task EXCEPT ![i] = "done"]
            /\ UNCHANGED <<launched, commands>>
       ELSE /\ Launch(i)
            /\ task' = [task EXCEPT ![i] = IF tool[i].kind = "raise"
                                             THEN "done" ELSE "exporting"]
    /\ UNCHANGED <<parameter_file, selection, sequential, tool, pc, folder_exists,
                   parameters, selected_indices, idx, work_queue, successes,
                   failures, export_times, summary, exit_status>>

\* When WorkerFinish can be taken.
CanWorkerFinish(i) ==
    /\ task[i] = "exporting"

\* WorkerFinish with the worker thread appending its result to the result
\* lists itself.
WorkerFinishAppending(i) ==
    /\ CanWorkerFinish(i)
    /\ task' = [task EXCEPT ![i] = "done"]
    /\ LET result == ProcessExportResult(i)
       IN /\ IF result[1] = "success"
             THEN /\ successes' = Append(successes, result[2])
                  /\ UNCHANGED failures
             ELSE /\ failures' = Append(failures, result[2])
                  /\ UNCHANGED successes
          /\ export_times' = Append(export_times, result[3])
    /\ UNCHANGED <<parameter_file, selection, sequential, tool, pc, folder_exists,
                   parameters, selected_indices, idx, work_queue, launched,
                   commands, summary, exit_status>>

\* The tool launched for i exits and process_export(i) returns its result.
WorkerFinish(i) ==
    /\ CanWorkerFinish(i)
    /\ task' = [task EXCEPT ![i] = "done"]
    /\ UNCHANGED <<parameter_file, selection, sequential, tool, pc, folder_exists,
                   parameters, selected_indices, idx, work_queue, launched,
                   commands, successes, failures, export_times, summary,
                   exit_status>>

\* When Collect can be taken.
CanCollect(i) ==
    /\ pc = "collect"
    /\ task[i] = "done"

\* Collect with the exception of a launch recorded as a failure of its unit.
CollectCatching(i) ==
    /\ CanCollect(i)
    /\ task' = [task EXCEPT ![i] = "collected"]
    /\ IF ~IsSelected(i)
       THEN UNCHANGED <<pc, successes, failures, export_times>>
       ELSE IF tool[i].kind = "raise"
       THEN /\ failures' = Append(failures, <<OutputFile(i), "">>)
            /\ export_times' = Append(export_times, tool[i].secs)
            /\ UNCHANGED <<pc, successes>>
       ELSE LET result == ProcessExportResult(i)
            IN /\ IF result[1] = "success"
                  THEN /\ successes' = Append(successes, result[2])
                       /\ UNCHANGED failures
                  ELSE /\ failures' = Append(failures, result[2])
                       /\ UNCHANGED successes
               /\ export_times' = Append(export_times, result[3])
               /\ UNCHANGED pc
    /\ UNCHANGED <<parameter_file, selection, sequential, tool, folder_exists,
                   parameters, selected_indices, idx, work_queue, launched,
                   commands, summary, exit_status>>

\* as_completed yields the finished future of i and the loop body handles
\* future.result(): None, a success, a failure or the exception of the launch.
Collect(i) ==
    /\ CanCollect(i)
    /\ task' = [task EXCEPT ![i] = "collected"]
    /\ IF ~IsSelected(i)
       THEN UNCHANGED <<pc, successes, failures, export_times>>
       ELSE IF tool[i].kind = "raise"
       THEN /\ pc' = "unwind"
            /\ UNCHANGED <<successes, failures, export_times>>
       ELSE LET result == ProcessExportResult(i)
            IN /\ IF result[1] = "success"
                  THEN /\ successes' = Append(successes, result[2])
                       /\ UNCHANGED failures
                  ELSE /\ failures' = Append(failures, result[2])
                       /\ UNCHANGED successes
               /\ export_times' = Append(export_times, result[3])
               /\ UNCHANGED pc
    /\ UNCHANGED <<parameter_file, selection, sequential, tool, folder_exists,
                   parameters, selected_indices, idx, work_queue, launched,
                   commands, summary, exit_status>>

\* When CollectDone can be taken.
CanCollectDone ==
    /\ pc = "collect"
    /\ \A i \in DOMAIN task : task[i] = "collected"

\* Every future was yielded: the with block is left.
CollectDone ==
    /\ CanCollectDone
    /\ pc' = "summary"
    /\ UNCHANGED <<parameter_file, selection, sequential, tool, folder_exists,
                   parameters, selected_indices, idx, task, work_queue, launched,
                   commands, successes, failures, export_times, summary,
                   exit_status>>

\* When Unwind can be taken.
CanUnwind ==
    /\ pc = "unwind"
    /\ \A i \in DOMAIN task : task[i] \in {"done", "collected"}

\* An exception leaves the with block: the executor is shut down, which waits
\* for every submitted future, and the exception ends the run.
Unwind ==
    /\ CanUnwind
    /\ Exit(1)
    /\ UNCHANGED <<parameter_file, selection, sequential, tool, folder_exists,
                   parameters, selected_indices, idx, task, work_queue, launched,
                   commands, successes, failures, export_times, summary>>

\* When Summary can be taken.
CanSummary ==
    /\ pc = "summary"

\* The summary is printed.
Summary ==
    /\ CanSummary
    /\ summary' = [attempted |-> Len(successes) + Len(failures),
                   successes |-> successes,
                   failures |-> failures]
    /\ pc' = "return"
    /\ UNCHANGED <<parameter_file, selection, sequential, tool, folder_exists,
                   parameters, selected_indices, idx, task, work_queue, launched,
                   commands, successes, failures, export_times, exit_status>>

\* When MainReturn can be taken.
CanMainReturn ==
    /\ pc = "return"

\* batch_export returns to main, which returns: the process ends normally.
MainReturn ==
    /\ CanMainReturn
    /\ Exit(0)
    /\ UNCHANGED <<parameter_file, selection, sequential, tool, folder_exists,
                   parameters, selected_indices, idx, task, work_queue, launched,
                   commands, successes, failures, export_times, summary>>

(***************************************************************************)
(* Specifications                                                          *)
(***************************************************************************)
\* The variables of the other parts hold a fixed value.
IdleBatch ==
    /\ parameter_file = CsvFile(CsvExt, <<>>, <<>>)
    /\ selection = None
    /\ sequential = TRUE
    /\ tool = <<>>
    /\ folder_exists = FALSE
    /\ pc = "idle"
    /\ parameters = <<>>
    /\ selected_indices = None
    /\ idx = 0
    /\ task = <<>>
    /\ work_queue = <<>>
    /\ launched = <<>>
    /\ commands = <<>>
    /\ successes = <<>>
    /\ failures = <<>>
    /\ export_times = <<>>
    /\ summary = None
    /\ exit_status = None

IdleParse ==
    /\ sel_clauses = <<>>
    /\ sel_str = <<>>
    /\ sel_total = 0
    /\ sel_result = Err

IdleFlags ==
    /\ flag_params = <<>>
    /\ flag_result = Err

Init == InitBatch /\ IdleParse /\ IdleFlags

Next ==
    \/ LoadParameters /\ UNCHANGED <<sel_vars, flag_vars>>
    \/ EnsureOutputFolder /\ UNCHANGED <<sel_vars, flag_vars>>
    \/ SelectIndices /\ UNCHANGED <<sel_vars, flag_vars>>
    \/ SeqSkip /\ UNCHANGED <<sel_vars, flag_vars>>
    \/ SeqExport /\ UNCHANGED <<sel_vars, flag_vars>>
    \/ SeqDone /\ UNCHANGED <<sel_vars, flag_vars>>
    \/ Submit /\ UNCHANGED <<sel_vars, flag_vars>>
    \/ SubmitDone /\ UNCHANGED <<sel_vars, flag_vars>>
    \/ WorkerTake /\ UNCHANGED <<sel_vars, flag_vars>>
    \/ \E i \in DOMAIN task : WorkerStart(i) /\ UNCHANGED <<sel_vars, flag_vars>>
    \/ \E i \in DOMAIN task : WorkerFinish(i) /\ UNCHANGED <<sel_vars, flag_vars>>
    \/ \E i \in DOMAIN task : Collect(i) /\ UNCHANGED <<sel_vars, flag_vars>>
    \/ CollectDone /\ UNCHANGED <<sel_vars, flag_vars>>
    \/ Unwind /\ UNCHANGED <<sel_vars, flag_vars>>
    \/ Summary /\ UNCHANGED <<sel_vars, flag_vars>>
    \/ MainReturn /\ UNCHANGED <<sel_vars, flag_vars>>

Spec == Init /\ [][Next]_vars

InitSelection == InitParse /\ IdleBatch /\ IdleFlags

NextSelection == Parse /\ UNCHANGED <<batch_vars, flag_vars>>

SpecParse == InitSelection /\ [][NextSelection]_vars

InitTranslate == InitFlags /\ IdleBatch /\ IdleParse

NextTranslate == Translate /\ UNCHANGED <<batch_vars, sel_vars>>

SpecFlags == InitTranslate /\ [][NextTranslate]_vars

(***************************************************************************)
(* Properties of batch_export                                              *)
(***************************************************************************)
\* The indices the selection stands for once it is parsed: all of them when
\* no selection is in force.
SelectedSet ==
    IF selected_indices = None THEN 0..(Len(parameters) - 1)
    ELSE Range(selected_indices.items)

ExitedZero(i) == tool[i].kind = "exit" /\ tool[i].code = 0

ExitedNonZero(i) == tool[i].kind = "exit" /\ tool[i].code # 0

\* The error text the tool of index i leaves: its standard error, trimmed.
ErrorOf(i) == Str(strip(tool[i].stderr))

\* The output files of the indices of S in ascending index order.
FilesInIndexOrder(S) == [k \in 1..Cardinality(S) |-> OutputFile(sorted(S)[k])]

\* The (output file, error) pairs of the indices of S in ascending index order.
ErrorsInIndexOrder(S) ==
    [k \in 1..Cardinality(S) |-> <<OutputFile(sorted(S)[k]), ErrorOf(sorted(S)[k])>>]

\* C1: in concurrent mode the successes and the failures of the summary are
\* each in ascending order of the original parameter-set index, whatever the
\* order in which the workers complete.
C1_ConcurrentSummarySortedByIndex ==
    (~sequential /\ summary # None) =>
        /\ summary.successes = FilesInIndexOrder({i \in SelectedSet : ExitedZero(i)})
        /\ summary.failures = ErrorsInIndexOrder({i \in SelectedSet : ExitedNonZero(i)})

\* How many entries of the sequence q equal x.
Count(q, x) == Cardinality({k \in 1..Len(q) : q[k] = x})

\* The output file of every recorded outcome, successes first.
OutcomeFiles == successes \o [k \in 1..Len(failures) |-> failures[k][1]]

\* C2: at the summary, in both modes, there is exactly one outcome per
\* selected index and none for another index: successes + failures and the
\* durations both number |S|, and the output files of the outcomes are, one
\* for one, the derived output files of the selected indices.
C2_OneOutcomePerSelectedIndex ==
    summary # None =>
        /\ Len(successes) + Len(failures) = Cardinality(SelectedSet)
        /\ summary.attempted = Cardinality(SelectedSet)
        /\ Len(export_times) = Cardinality(SelectedSet)
        /\ \A i \in 0..(Len(parameters) - 1) :
              Count(OutcomeFiles, OutputFile(i))
                  = Cardinality({j \in SelectedSet : OutputFile(j) = OutputFile(i)})
        /\ \A k \in 1..Len(OutcomeFiles) :
              \E i \in SelectedSet : OutcomeFiles[k] = OutputFile(i)

\* C2 witness: a concurrent run reached the summary with a selection that
\* leaves an index out and with an outcome recorded.
C2_Witness ==
    /\ summary # None
    /\ ~sequential
    /\ selected_indices # None
    /\ SelectedSet # {}
    /\ Cardinality(SelectedSet) < Len(parameters)
    /\ Len(OutcomeFiles) = Cardinality(SelectedSet)

\* The parameter file has a supported extension.
SupportedFormat == lower(parameter_file.ext) \in {CsvExt, JsonExt}

\* A selection is given and it is not empty.
SelectionGiven == selection # None /\ selection.s # <<>>

\* The selection given is rejected for the parameter sets of the file.
InvalidSelection ==
    SelectionGiven /\ ~parse_selection(selection.s, NumSets).ok

\* The indices selected by the inputs of the run.
InputSelected ==
    IF SelectionGiven THEN Range(parse_selection(selection.s, NumSets).value)
    ELSE 0..(NumSets - 1)

\* The inputs are accepted and no launch of a selected unit raises.
OnlyExits ==
    /\ SupportedFormat
    /\ ~InvalidSelection
    /\ \A i \in InputSelected : tool[i].kind = "exit"

\* Some step of batch_export can be taken.  The effect of every action is an
\* assignment to each variable, so an action can be taken exactly when its
\* Can-condition holds.
CanStep ==
    \/ CanLoadParameters \/ CanEnsureOutputFolder \/ CanSelectIndices
    \/ CanSeqSkip \/ CanSeqExport \/ CanSeqDone
    \/ CanSubmit \/ CanSubmitDone \/ CanWorkerTake
    \/ \E i \in DOMAIN task : CanWorkerStart(i) \/ CanWorkerFinish(i) \/ CanCollect(i)
    \/ CanCollectDone \/ CanUnwind \/ CanSummary \/ CanMainReturn

\* C3: no unit is launched more than once; and when the units that fail do so
\* by a non-zero exit, the run neither ends nor stops before the summary, and
\* at the summary every selected unit was launched exactly once, the units
\* that exited non-zero are the failures and all the others are successes.
C3_NonZeroExitFailsItsUnitOnly ==
    /\ \A i \in DOMAIN launched : launched[i] <= 1
    /\ OnlyExits =>
        /\ pc = "exited" => summary # None
        /\ pc # "exited" => CanStep
        /\ summary # None =>
            /\ \A i \in DOMAIN launched :
                  launched[i] = (IF i \in SelectedSet THEN 1 ELSE 0)
            /\ Len(failures) = Cardinality({i \in SelectedSet : ExitedNonZero(i)})
            /\ Len(successes) = Cardinality({i \in SelectedSet : ExitedZero(i)})
            /\ \A k \in 1..Len(failures) :
                  \E i \in SelectedSet :
                      ExitedNonZero(i) /\ failures[k] = <<OutputFile(i), ErrorOf(i)>>

\* C3 witness: the first unit exited non-zero, a later unit was still exported
\* with success, and the summary was reached.
C3_Witness ==
    /\ summary # None
    /\ Len(parameters) >= 2
    /\ ExitedNonZero(0)
    /\ ExitedZero(1)
    /\ Len(failures) = 1
    /\ Len(successes) = 1
    /\ launched[0] = 1
    /\ launched[1] = 1

\* C4: when a batch run that printed its summary ends, the exit status is
\* non-zero exactly when at least one unit failed.
C4_ExitStatusTellsFailure ==
    (pc = "exited" /\ summary # None) =>
        (exit_status # 0 <=> Len(failures) > 0)

\* C5: the command launched for a unit is the tool path, -o, the output
\* file, --export-format=<format>, the -D flags in translation order and the
\* model source path.
C5_CommandCarriesFormatFlag ==
    \A i \in DOMAIN launched :
        launched[i] > 0 =>
            commands[i] = <<openscad_path, "-o", OutputFile(i),
                            "--export-format=" \o export_format>>
                          \o construct_d_flags(parameters[i + 1])
                          \o <<scad_file>>

\* C8: a run with an unsupported extension or an invalid selection ends
\* before anything is dispatched: nothing is ever submitted or launched and
\* no outcome or summary is recorded; and whenever a unit has been launched
\* the output folder exists.
C8_FatalErrorsPrecedeDispatch ==
    /\ (~SupportedFormat \/ InvalidSelection) =>
          /\ pc \in {"load", "mkdir", "select", "exited"}
          /\ pc = "exited" => exit_status = 1
          /\ \A i \in DOMAIN launched : launched[i] = 0 /\ task[i] = "new"
          /\ successes = <<>> /\ failures = <<>> /\ export_times = <<>>
          /\ summary = None
    /\ \A i \in DOMAIN launched : launched[i] > 0 => folder_exists
    /\ pc \in {"seq", "submit", "collect", "unwind", "summary", "return"}
          => folder_exists

\* C8 witness: the run ended on an invalid selection of a readable file
\* with parameter sets, with nothing launched.
C8_Witness ==
    /\ pc = "exited"
    /\ SupportedFormat
    /\ InvalidSelection
    /\ NumSets >= 1
    /\ exit_status = 1
    /\ \A i \in DOMAIN launched : launched[i] = 0

\* C10: with the same parameter sets, the same selection and a tool that
\* does the same for an index whenever it is run, both modes end with the
\* same set of successful output files and the same set of (output file,
\* error) failures: at the summary each set is the one fixed by the inputs,
\* whatever the mode and the interleaving.
C10_ModesAgreeOnOutcomeSets ==
    summary # None =>
        /\ Range(summary.successes) = {OutputFile(i) : i \in {j \in SelectedSet : ExitedZero(j)}}
        /\ Range(summary.failures)
              = {<<OutputFile(i), ErrorOf(i)>> : i \in {j \in SelectedSet : ExitedNonZero(j)}}

\* C10 witness: a concurrent run whose workers completed out of index order
\* reached the summary with a failure recorded.
C10_Witness ==
    /\ summary # None
    /\ ~sequential
    /\ Len(parameters) >= 2
    /\ ExitedZero(0) /\ ExitedNonZero(1)
    /\ OutputFile(0) # OutputFile(1)
    /\ summary.successes = <<OutputFile(0)>>
    /\ summary.failures = <<<<OutputFile(1), ErrorOf(1)>>>>
    /\ export_times = <<tool[1].secs, tool[0].secs>>

\* The result lists of batch_export.
results == <<successes, failures, export_times>>

\* The selected units whose result the collecting loop has handled.
Collected(S) == {i \in S : task[i] = "collected" /\ tool[i].kind = "exit"}

\* The lists hold one entry for each collected unit and no other: the
\* successes, the failures and the durations, counted with repetition.
OneEntryPerCollected ==
    /\ Len(successes) = Cardinality(Collected({i \in SelectedSet : ExitedZero(i)}))
    /\ Len(failures) = Cardinality(Collected({i \in SelectedSet : ExitedNonZero(i)}))
    /\ Len(export_times) = Len(successes) + Len(failures)
    /\ \A i \in DOMAIN task :
          /\ Count(successes, OutputFile(i))
                = Cardinality(Collected({j \in SelectedSet :
                      ExitedZero(j) /\ OutputFile(j) = OutputFile(i)}))
          /\ Count(failures, <<OutputFile(i), ErrorOf(i)>>)
                = Cardinality(Collected({j \in SelectedSet :
                      /\ ExitedNonZero(j)
                      /\ <<OutputFile(j), ErrorOf(j)>> = <<OutputFile(i), ErrorOf(i)>>}))

\* A step of a pool thread: a work item is taken, started or finished.
WorkerStep ==
    \E i \in DOMAIN task :
        /\ task'[i] # task[i]
        /\ task'[i] \in {"taken", "exporting", "done"}

\* A step of the collecting loop for the returned result of unit i: one append
\* to successes or to failures and one append to the durations.
CollectorAppend(i) ==
    /\ pc = "collect"
    /\ task[i] = "done"
    /\ task' = [task EXCEPT ![i] = "collected"]
    /\ i \in SelectedSet
    /\ tool[i].kind = "exit"
    /\ export_times' = Append(export_times, tool[i].secs)
    /\ IF tool[i].code = 0
       THEN successes' = Append(successes, OutputFile(i)) /\ failures' = failures
       ELSE /\ failures' = Append(failures, <<OutputFile(i), ErrorOf(i)>>)
            /\ successes' = successes

\* C11: in concurrent mode no step of a pool thread changes successes,
\* failures or the durations; every change of them is a step of the
\* collecting loop that appends the result of one finished selected unit once
\* to successes or failures and once to the durations; and so in every state,
\* under every interleaving, the lists hold exactly one entry per collected
\* unit, none lost, none twice, the durations as many as the outcomes.
C11_OnlyCollectorAppendsOncePerUnit ==
    /\ [](~sequential => OneEntryPerCollected)
    /\ [][~sequential =>
            /\ WorkerStep => UNCHANGED results
            /\ results' # results => \E i \in DOMAIN task : CollectorAppend(i)]_vars

\* C11 witness: the collecting loop has appended the result of unit 1 while a
\* pool thread is still exporting unit 0, and unit 0 also is selected.
C11_Witness ==
    /\ ~sequential
    /\ pc = "collect"
    /\ Len(parameters) >= 2
    /\ {0, 1} \subseteq SelectedSet
    /\ task[0] = "exporting"
    /\ task[1] = "collected"
    /\ tool[1].kind = "exit"
    /\ Len(export_times) = 1
    /\ Len(successes) + Len(failures) = 1

\* The inputs are accepted and the launch of some selected unit raises.
SomeLaunchRaises ==
    /\ SupportedFormat
    /\ ~InvalidSelection
    /\ \E i \in InputSelected : tool[i].kind = "raise"

\* Every recorded outcome belongs to a selected unit whose tool exited, the
\* failures to non-zero exits, and no file has more outcomes than such units.
OutcomesOnlyOfExits ==
    /\ \A k \in 1..Len(successes) :
          \E i \in SelectedSet : ExitedZero(i) /\ successes[k] = OutputFile(i)
    /\ \A k \in 1..Len(failures) :
          \E i \in SelectedSet :
              ExitedNonZero(i) /\ failures[k] = <<OutputFile(i), ErrorOf(i)>>
    /\ \A i \in DOMAIN task :
          Count(OutcomeFiles, OutputFile(i))
              <= Cardinality({j \in SelectedSet :
                    tool[j].kind = "exit" /\ OutputFile(j) = OutputFile(i)})
    /\ Len(export_times) = Len(successes) + Len(failures)

\* C12: a failure is recorded only for a selected unit whose tool exited
\* non-zero, and a unit whose launch raised has no outcome; and in a run, of
\* either mode, where the launch of a selected unit raises, the summary is
\* never produced, the run does not stop before it ends, and it ends with
\* the exception: no summary and a non-zero exit status.
C12_RaisingLaunchEndsRunWithoutSummary ==
    /\ OutcomesOnlyOfExits
    /\ SomeLaunchRaises =>
          /\ summary = None
          /\ pc \notin {"summary", "return"}
          /\ pc # "exited" => CanStep
          /\ pc = "exited" =>
                /\ exit_status = 1
                /\ \E i \in SelectedSet : tool[i].kind = "raise" /\ launched[i] = 1

\* C12 witness: a concurrent run ended on the exception of the launch of
\* unit 1 after the success of unit 0 was recorded.
C12_Witness ==
    /\ pc = "exited"
    /\ ~sequential
    /\ exit_status = 1
    /\ summary = None
    /\ Len(parameters) >= 2
    /\ {0, 1} \subseteq SelectedSet
    /\ ExitedZero(0)
    /\ tool[1].kind = "raise"
    /\ launched[1] = 1
    /\ successes = <<OutputFile(0)>>
    /\ failures = <<>>

(***************************************************************************)
(* Properties of parse_selection                                           *)
(***************************************************************************)
\* The literals written in a clause.
ClauseLits(c) ==
    CASE c.kind = "every" -> {c.step, c.start, c.end}
      [] c.kind = "range" -> {c.start, c.end}
      [] c.kind = "from" -> {c.start}
      [] c.kind = "up_to" -> {c.end}
      [] c.kind = "index" -> {c.n}
      [] c.kind = "empty" -> {}

AllNatural(c) == \A l \in ClauseLits(c) : l.k = "nat"

\* start > end in a clause that has both.
Reversed(c) == c.kind \in {"every", "range"} /\ c.start.n > c.end.n

\* The indices a clause of natural literals stands for, by the grammar:
\* start, start+step, ... not beyond end; start..total-1; 0..end; start..end; n.
Expansion(c, total) ==
    CASE c.kind = "every" ->
            {i \in c.start.n..c.end.n :
                \E k \in 0..(c.end.n - c.start.n) : i = c.start.n + k * c.step.n}
      [] c.kind = "range" -> c.start.n..c.end.n
      [] c.kind = "from" -> c.start.n..(total - 1)
      [] c.kind = "up_to" -> 0..c.end.n
      [] c.kind = "index" -> {c.n.n}
      [] c.kind = "empty" -> {}

\* The indices a clause names: those it stands for and the start of a from
\* clause.
Named(c, total) ==
    Expansion(c, total) \cup (IF c.kind = "from" THEN {c.start.n} ELSE {})

\* A clause of natural literals with start <= end that names no index
\* outside [0, total).
WellFormed(c, total) ==
    /\ AllNatural(c)
    /\ ~Reversed(c)
    /\ Named(c, total) \subseteq 0..(total - 1)

ZeroStep(c) == c.kind = "every" /\ c.step = Nat_(0)

ExpansionUnion(cs, total) == UNION {Expansion(cs[k], total) : k \in 1..Len(cs)}

Parsed == sel_result # None

\* C6 as stated: for total > 0 and a well-formed selection string parse
\* returns the ascending duplicate-free list of the union of the expansions
\* of its clauses, all inside [0, total).
C6_ParseReturnsUnionOfClauses ==
    (Parsed /\ sel_total > 0 /\ \A k \in 1..Len(sel_clauses) : WellFormed(sel_clauses[k], sel_total))
        => /\ sel_result = Ok(sorted(ExpansionUnion(sel_clauses, sel_total)))
           /\ Range(sel_result.value) \subseteq 0..(sel_total - 1)

\* C6 amended: the same for the well-formed selection strings whose every
\* clauses have a step of at least 1; a well-formed string with an every
\* clause of step 0 is rejected.
C6_ParseReturnsUnionForPositiveSteps ==
    (Parsed /\ sel_total > 0 /\ \A k \in 1..Len(sel_clauses) : WellFormed(sel_clauses[k], sel_total))
        => IF \E k \in 1..Len(sel_clauses) : ZeroStep(sel_clauses[k])
           THEN sel_result = Err
           ELSE /\ sel_result = Ok(sorted(ExpansionUnion(sel_clauses, sel_total)))
                /\ Range(sel_result.value) \subseteq 0..(sel_total - 1)
                /\ \A k \in 1..(Len(sel_result.value) - 1) :
                      sel_result.value[k] < sel_result.value[k + 1]

\* C6 witness: a padded string of two overlapping well-formed clauses, one of
\* them an every clause of step 2 and one an up_to clause, was parsed into
\* three indices.
C6_Witness ==
    /\ Parsed
    /\ sel_result.ok
    /\ Len(sel_clauses) = 2
    /\ Head(sel_str) = " "
    /\ \A k \in 1..2 : WellFormed(sel_clauses[k], sel_total)
    /\ sel_clauses[1].kind = "every" /\ sel_clauses[1].step = Nat_(2)
    /\ sel_clauses[2].kind = "up_to"
    /\ sel_result.value = <<0, 1, 2>>

\* A clause that must make parse fail: a literal that is no non-negative
\* integer, start > end, or an index named outside [0, total).
Offending(c, total) ==
    \/ ~AllNatural(c)
    \/ Reversed(c)
    \/ ~(Named(c, total) \subseteq 0..(total - 1))

\* C7: parse fails, returning no indices, whenever one clause has a literal
\* that is no non-negative integer (the step of an every clause included),
\* has start > end or names an index outside [0, total), wherever the clause
\* stands and whatever the other clauses are.
C7_OffendingClauseFailsParse ==
    (Parsed /\ \E k \in 1..Len(sel_clauses) : Offending(sel_clauses[k], sel_total))
        => sel_result = Err

(***************************************************************************)
(* Properties of construct_d_flags                                         *)
(***************************************************************************)
\* The text each value must be rendered as, by the first rule that matches
\* it: <<value, rule, text>>.
Renderings ==
    { <<Bool_(TRUE), 1, "true">>, <<Bool_(FALSE), 1, "false">>,
      <<Int_(3), 2, "3">>, <<Int_(-1), 2, "-1">>,
      <<Float_(FALSE, 3, 0), 2, "3.0">>, <<Float_(FALSE, 25, 1), 2, "2.5">>,
      <<Str_(<<"t", "r", "u", "e">>), 3, "true">>,
      <<Str_(<<"T", "R", "U", "E">>), 3, "true">>,
      <<Str_(<<"F", "a", "l", "s", "e">>), 3, "false">>,
      <<Str_(<<"[", "1", ",", "2", "]">>), 4, "[1,2]">>,
      <<Str_(<<" ", "[", "1", "]", " ">>), 4, " [1] ">>,
      <<Str_(<<"{", "a", "}">>), 4, "{a}">>,
      <<Str_(<<"3", ".", "0">>), 5, "3">>,
      <<Str_(<<"3", ".", "5">>), 5, "3.5">>,
      <<Str_(<<"3", ".", "5", "0">>), 5, "3.5">>,
      <<Str_(<<"7">>), 5, "7">>,
      <<Str_(<<"0", "0", "7">>), 5, "7">>,
      <<Str_(<<"-", "2", ".", "0">>), 5, "-2">>,
      <<Str_(<<"-", "0", ".", "5">>), 5, "-0.5">>,
      <<Str_(<<".", "5">>), 5, "0.5">>,
      <<Str_(<<"5", ".">>), 5, "5">>,
      <<Str_(<<" ", "4", " ">>), 5, "4">>,
      <<Str_(<<"1", "e", "2">>), 5, "100">>,
      <<Str_(<<"1", "_", "0">>), 5, "10">>,
      <<Str_(<<"n", "a", "n">>), 5, "nan">>,
      <<Str_(<<"I", "n", "f">>), 5, "inf">>,
      <<Str_(<<" ", "t", "r", "u", "e">>), 5, "\" true\"">>,
      <<Str_(<<"[", "1", "}">>), 5, "\"[1}\"">>,
      <<Str_(<<"[", "1">>), 5, "\"[1\"">>,
      <<Str_(<<"h", "e", "l", "l", "o">>), 5, "\"hello\"">>,
      <<Str_(<<"1", ".", "2", ".", "3">>), 5, "\"1.2.3\"">>,
      <<Str_(<<".">>), 5, "\".\"">>,
      <<Str_(<<>>), 5, "\"\"">>,
      <<None, 6, "\"None\"">>,
      <<List_(<<1, 2>>), 6, "\"[1, 2]\"">> }

Rendering(value) == (CHOOSE r \in Renderings : r[1] = value)[3]

\* The items of a parameter set other than the reserved output name, in order.
Overrides(params) == SelectSeq(params, LAMBDA item : item[1] # ExportedFilename)

\* C9: translate never fails and yields one flag per parameter other than the
\* reserved output name, in the order of the parameter set, each
\* -D<name>=<text> with the text of the first matching rule: bool, number,
\* boolean word, bracketed text, numeric text (whole: integer literal), and
\* double quotes for every other string or type.
C9_OneFlagPerParameterByPrecedence ==
    flag_result # None =>
        /\ flag_result.ok
        /\ Len(flag_result.value) = Len(Overrides(flag_params))
        /\ \A k \in 1..Len(Overrides(flag_params)) :
              flag_result.value[k]
                  = "-D" \o Overrides(flag_params)[k][1] \o "="
                         \o Rendering(Overrides(flag_params)[k][2])

\* C9 witness: a parameter set holding the reserved output name first and a
\* str "3.0" was translated to the single flag -Dwidth=3.
C9_Witness ==
    /\ flag_result # None
    /\ Len(flag_params) = 2
    /\ flag_params[1][1] = ExportedFilename
    /\ flag_params[2] = <<"width", Str_(<<"3", ".", "0">>)>>
    /\ flag_result = Ok(<<"-Dwidth=3">>)

====
